---- MODULE Spec2Model ----
(***************************************************************************)
(* Model of labhai/VCF-Anonymization:                                      *)
(*   src/vcf_anonymizer/vcf_anonymizer.py            (the anonymizer)      *)
(*   src/anonymization validation/vcf_anonymization_verifier.py (verifier) *)
(*                                                                         *)
(* Allele sequences are sequences of one-character strings.  Frequencies   *)
(* (Python floats) are fixed-point integers in units of 1/Scale.           *)
(***************************************************************************)
EXTENDS Integers, Sequences, FiniteSets, TLC

VARIABLES
    pc,           \* position of the running tool
    alt_seq,      \* STR engine: the allele sequence being examined
    min_motif,    \* --min-motif
    max_motif,    \* --max-motif
    min_repeat,   \* --min-repeat
    motif,        \* STR engine: m.group(1) of the first matching pattern, or NoMotif
    masked,       \* STR engine: result of mask_str, or NoMotif before masking
    level,        \* "low" / "high"
    origin,       \* records of the original file
    i,            \* number of records the running loop has consumed
    anony,        \* records of the anonymized file written by the anonymizer
    targets,      \* verifier: site -> [kind, alt_orig]
    rec,          \* verifier: the transformed record the verify loop is at
    var_m_sites,  \* verifier: sites judged successful (success_sites)
    error_sites,  \* verifier: sites judged failed so far
    result,       \* verifier: the report row returned by verify_pair
    info_map,     \* estimators: the INFO map both tools are given
    maf_anon,     \* estimators: what the anonymizer's site_maf_from_info gave
    maf_verif     \* estimators: what the verifier's site_maf_from_info gave

vars == <<pc, alt_seq, min_motif, max_motif, min_repeat, motif, masked, level,
          origin, i, anony, targets, rec, var_m_sites, error_sites, result,
          info_map, maf_anon, maf_verif>>

strVars == <<alt_seq, motif, masked>>
paramVars == <<min_motif, max_motif, min_repeat>>
fileVars == <<level, origin, i, anony, targets, rec, var_m_sites, error_sites, result>>
mafVars == <<info_map, maf_anon, maf_verif>>

-----------------------------------------------------------------------------
(* Bounds of the model *)

\* longest allele sequence enumerated exhaustively by the STR engine checks
MaxLen == 5

\* most records in an original file
MaxOrig == 2

\* most records the verifier reads from a transformed file of arbitrary content
MaxAnon == 2

\* most elements of a multi-valued INFO field
MaxVals == 2

(* Program constants *)

\* argparse defaults of --min-motif / --max-motif / --min-repeat
DefaultMinMotif == 1
DefaultMaxMotif == 6
DefaultMinRepeat == 7

\* fixed-point unit: 1.0 is Scale
Scale == 1000

\* --maf default 0.01, in units of 1/Scale
MafThreshold == 10

-----------------------------------------------------------------------------
(* Generic helpers *)

Min(S) == CHOOSE x \in S : \A y \in S : x <= y

Range(s) == {s[j] : j \in DOMAIN s}

RECURSIVE SumSeq(_)
SumSeq(s) == IF s = <<>> THEN 0 ELSE Head(s) + SumSeq(Tail(s))

RECURSIVE Filter(_, _)
\* the elements of s not in the set drop, in order
Filter(s, drop) ==
    IF s = <<>> THEN <<>>
    ELSE IF Head(s) \in drop THEN Filter(Tail(s), drop)
    ELSE <<Head(s)>> \o Filter(Tail(s), drop)

RECURSIVE Times(_, _)
\* Python's  s * n  on sequences
Times(s, n) == IF n <= 0 THEN <<>> ELSE s \o Times(s, n - 1)

-----------------------------------------------------------------------------
(* STR pattern engine *)

Alphabet == {"A", "C", "G", "T"}

NoMotif == <<>>

\* seq[p : p + len(m)] == m
MatchAt(seq, p, m) ==
    /\ p + Len(m) - 1 <= Len(seq)
    /\ SubSeq(seq, p, p + Len(m) - 1) = m

RECURSIVE RunCount(_, _, _)
\* how many contiguous copies of m stand at position p (what a greedy
\* (m){n,} or \1{n,} consumes from p)
RunCount(seq, p, m) ==
    IF MatchAt(seq, p, m) THEN 1 + RunCount(seq, p + Len(m), m) ELSE 0

\* positions where the pattern  ([ACGT]{k})\1{min_repeat-1,}  matches
PatternHits(seq, k, n) ==
    {p \in 1..(Len(seq) - k + 1) :
        /\ \A j \in p..(p + k - 1) : seq[j] \in Alphabet
        /\ RunCount(seq, p, SubSeq(seq, p, p + k - 1)) >= n}

\* p.search(alt_seq) for the pattern of motif length k, then m.group(1):
\* the leftmost match's captured motif, or NoMotif
PatternSearch(seq, k, n) ==
    LET hits == PatternHits(seq, k, n)
    IN  IF hits = {} THEN NoMotif
        ELSE SubSeq(seq, Min(hits), Min(hits) + k - 1)

\* build_str_patterns: the motif lengths, one pattern each, in ascending order
build_str_patterns(lo, hi, n) == lo..hi

\* a pattern loop that tries the longest motif length first
DetectDescending(seq, lo, hi, n) ==
    LET ks == {k \in build_str_patterns(lo, hi, n) : PatternSearch(seq, k, n) # NoMotif}
    IN  IF ks = {} THEN NoMotif ELSE PatternSearch(seq, -Min({-k : k \in ks}), n)

\* the pattern loop of anonymize_vcf_file: first pattern that matches, then break
Detect(seq, lo, hi, n) ==
    LET ks == {k \in build_str_patterns(lo, hi, n) : PatternSearch(seq, k, n) # NoMotif}
    IN  IF ks = {} THEN NoMotif ELSE PatternSearch(seq, Min(ks), n)

RECURSIVE replChunks(_, _)
replChunks(segment, m) ==
    IF segment = <<>> THEN <<>>
    ELSE LET L == Len(m)
             chunk == SubSeq(segment, 1, IF L <= Len(segment) THEN L ELSE Len(segment))
             rest == SubSeq(segment, Len(chunk) + 1, Len(segment))
         IN  (IF chunk = m THEN <<chunk[1]>> \o Times(<<"N">>, L - 1) ELSE chunk)
             \o replChunks(rest, m)

\* a replacement that masks the leading base of every chunk too
replWholeRun(segment, m) == Times(<<"N">>, Len(segment))

\* the replacement of one matched run: the lambda (1bp) and repl (2~6bp)
repl(segment, m) ==
    IF Len(m) = 1 THEN Times(<<"N">>, Len(segment)) ELSE replChunks(segment, m)

RECURSIVE SubAll(_, _, _, _)
\* re.sub(({motif}){min_repeat,}, repl, seq) scanning from position p:
\* every non-overlapping match, leftmost first, each greedy
SubAll(seq, p, m, n) ==
    IF p > Len(seq) THEN <<>>
    ELSE LET c == RunCount(seq, p, m)
         IN  IF c >= n
             THEN repl(SubSeq(seq, p, p + c * Len(m) - 1), m)
                      \o SubAll(seq, p + c * Len(m), m, n)
             ELSE <<seq[p]>> \o SubAll(seq, p + 1, m, n)

RECURSIVE SubFirst(_, _, _, _)
\* a substitution that stops after the first match (re.sub with count=1)
SubFirst(seq, p, m, n) ==
    IF p > Len(seq) THEN <<>>
    ELSE LET c == RunCount(seq, p, m)
         IN  IF c >= n
             THEN repl(SubSeq(seq, p, p + c * Len(m) - 1), m)
                      \o SubSeq(seq, p + c * Len(m), Len(seq))
             ELSE <<seq[p]>> \o SubFirst(seq, p + 1, m, n)

mask_strFirstOnly(seq, m, n) == SubFirst(seq, 1, m, n)

mask_str(seq, m, n) == SubAll(seq, 1, m, n)

-----------------------------------------------------------------------------
(* Allele sequences the checks enumerate *)

RECURSIVE SeqsUpTo(_)
SeqsUpTo(n) ==
    IF n = 0 THEN {<<>>}
    ELSE LET shorter == SeqsUpTo(n - 1)
         IN  shorter \cup {s \o <<c>> : s \in {t \in shorter : Len(t) = n - 1}, c \in Alphabet}

A7 == Times(<<"A">>, 7)
CAG7 == Times(<<"C", "A", "G">>, 7)

\* the two alleles of the documented scenarios, under the default parameters
ExampleSeqs == {A7, CAG7}

-----------------------------------------------------------------------------
(* Annotation (INFO) values and the two MAF estimators *)

\* Python None, a value float() rejects, an exception escaping the estimator,
\* and a key that is not in the INFO map
None == -1
Bad == -2
Raise == -3
Missing == -9

\* an INFO value: a scalar, or a tuple of elements
Scalar(x) == [tuple |-> FALSE, vals |-> <<x>>]
Tuple(s) == [tuple |-> TRUE, vals |-> s]
Absent == Scalar(Missing)

\* "KEY" in info
Has(v) == v # Absent

\* _to_float on one element: float(x), None when float() raises
to_float(x) == IF x \in {None, Bad} THEN None ELSE x

\* _to_float on a whole INFO value: float(tuple) raises, so None
to_float_value(v) == IF v.tuple THEN None ELSE to_float(v.vals[1])

\* list(vals) if isinstance(vals, (tuple, list)) else [vals]
AsList(v) == v.vals

RECURSIVE MapToFloat(_)
MapToFloat(s) ==
    IF s = <<>> THEN <<>> ELSE <<to_float(Head(s))>> \o MapToFloat(Tail(s))

RECURSIVE DivideAll(_, _)
\* [a / an for a in acs], in units of 1/Scale
DivideAll(acs, an) ==
    IF acs = <<>> THEN <<>>
    ELSE <<(Head(acs) * Scale) \div an>> \o DivideAll(Tail(acs), an)

\* ref = max(0.0, 1.0 - sum(afs)); min([ref] + afs)
MinWithRef(afs) ==
    LET s == SumSeq(afs)
        ref == IF Scale - s > 0 THEN Scale - s ELSE 0
    IN  Min({ref} \cup Range(afs))

\* site_maf_from_info of the anonymizer
site_maf_from_info(info) ==
    IF Has(info.MAF)
    THEN IF info.MAF.tuple
         THEN IF info.MAF.vals = <<>> THEN Raise ELSE to_float(info.MAF.vals[1])
         ELSE to_float(info.MAF.vals[1])
    ELSE LET afs == IF Has(info.AF)
                    THEN MapToFloat(Filter(AsList(info.AF), {None}))
                    ELSE <<>>
         IN  IF afs # <<>>
             THEN IF None \in Range(afs) THEN Raise ELSE MinWithRef(afs)
             ELSE IF Has(info.AC) /\ Has(info.AN)
                  THEN LET an == to_float_value(info.AN)
                           acs == Filter(MapToFloat(AsList(info.AC)), {None})
                       IN  IF an = None \/ an <= 0 THEN None
                           ELSE IF acs # <<>> THEN MinWithRef(DivideAll(acs, an))
                           ELSE None
                  ELSE None

\* site_maf_from_info of the verifier
verifier_site_maf_from_info(info) ==
    IF Has(info.MAF) /\ info.MAF # Scalar(None)
    THEN IF info.MAF.tuple
         THEN IF info.MAF.vals = <<>> THEN None ELSE to_float(info.MAF.vals[1])
         ELSE to_float(info.MAF.vals[1])
    ELSE LET afs == IF Has(info.AF) /\ info.AF # Scalar(None)
                    THEN Filter(MapToFloat(Filter(AsList(info.AF), {None})), {None})
                    ELSE <<>>
         IN  IF afs # <<>>
             THEN MinWithRef(afs)
             ELSE IF /\ Has(info.AC) /\ Has(info.AN)
                     /\ info.AC # Scalar(None) /\ info.AN # Scalar(None)
                  THEN LET an == to_float_value(info.AN)
                           acs == Filter(MapToFloat(Filter(AsList(info.AC), {None})), {None})
                       IN  IF an = None \/ an <= 0 THEN None
                           ELSE IF acs # <<>> THEN MinWithRef(DivideAll(acs, an))
                           ELSE None
                  ELSE None

\* maf is not None and maf < maf_threshold
IsRare(maf, maf_threshold) == maf # None /\ maf # Raise /\ maf < maf_threshold

-----------------------------------------------------------------------------
(* Variant records *)

\* the sentinel allele '.'
Dot == <<".">>

AC == <<"A", "C">>
N7 == Times(<<"N">>, 7)

\* (chrom, pos)
Sites == {<<"1", 9>>, <<"1", 10>>}

Info(maf, af, ac, an) == [MAF |-> maf, AF |-> af, AC |-> ac, AN |-> an]

NoInfo == Info(Absent, Absent, Absent, Absent)

Record(site, alts, info) == [site |-> site, alts |-> alts, info |-> info]

InfoMaf == Info(Scalar(5), Absent, Absent, Absent)
InfoMafMissingAf == Info(Scalar(None), Tuple(<<5>>), Absent, Absent)
InfoAcAn == Info(Absent, Absent, Tuple(<<2>>), Scalar(100))

\* <<rec.alts, rec.info>> of the records of an original file.  Alternates:
\* none, '.', a plain allele, an allele with 7 x A, a multi-allelic mix.
\* Annotations: none, MAF=0.005, MAF missing ('.') beside AF=0.005, and
\* AC=2;AN=100 (0.02).
OrigVariants ==
    { <<<<>>, InfoMaf>>,
      <<<<Dot>>, NoInfo>>,
      <<<<AC>>, NoInfo>>,
      <<<<AC>>, InfoMaf>>,
      <<<<AC>>, InfoMafMissingAf>>,
      <<<<AC>>, InfoAcAn>>,
      <<<<A7>>, NoInfo>>,
      <<<<A7>>, InfoMaf>>,
      <<<<AC, A7>>, NoInfo>>,
      <<<<AC, A7>>, InfoMaf>> }

OrigRecords == {Record(s, v[1], v[2]) : s \in Sites, v \in OrigVariants}

\* records of a transformed file that some other tool (or a hand edit) wrote
AnonAlts == {<<>>, <<Dot>>, <<AC>>, <<<<"A">>>>, <<A7>>, <<N7>>, <<AC, N7>>}

AnonInfos == {NoInfo, InfoMaf, Info(Scalar(200), Absent, Absent, Absent)}

AnonRecords == {Record(s, a, inf) : s \in Sites, a \in AnonAlts, inf \in AnonInfos}

RECURSIVE StreamsUpTo(_, _)
\* the record sequences of length <= n over the record set R
StreamsUpTo(R, n) ==
    IF n = 0 THEN {<<>>}
    ELSE LET shorter == StreamsUpTo(R, n - 1)
         IN  shorter \cup {s \o <<r>> : s \in {x \in shorter : Len(x) = n - 1}, r \in R}

\* rec.alts and all(a == "." for a in rec.alts)
AllDot(alts) == \A j \in DOMAIN alts : alts[j] = Dot

-----------------------------------------------------------------------------
(* Anonymization engine: one iteration of the record loop of anonymize_vcf_file *)

\* 3-1) the masked form of one ALT allele
MaskAllele(a, lo, hi, n) ==
    LET m == Detect(a, lo, hi, n)
    IN  IF m # NoMotif THEN mask_str(a, m, n) ELSE a

NewAlts(alts, lo, hi, n) == [j \in DOMAIN alts |-> MaskAllele(alts[j], lo, hi, n)]

\* str_modified after the allele loop
StrModified(alts, lo, hi, n) == \E j \in DOMAIN alts : NewAlts(alts, lo, hi, n)[j] # alts[j]

\* 3-2) a gate that suppresses on the MAF estimate whatever the STR step did
MafGateAlways(alts, lo, hi, n) == TRUE

\* 3-2) if not str_modified
MafGate(alts, lo, hi, n) == ~StrModified(alts, lo, hi, n)

\* whether the loop body reaches site_maf_from_info for r
ReachesMaf(r, lvl, lo, hi, n) ==
    /\ ~(r.alts # <<>> /\ AllDot(r.alts))
    /\ lvl # "low"
    /\ MafGate(r.alts, lo, hi, n)

\* an exception escapes the loop body (site_maf_from_info raised)
TransformRaises(r, lvl, lo, hi, n) ==
    ReachesMaf(r, lvl, lo, hi, n) /\ site_maf_from_info(r.info) = Raise

\* the record handed to vcf_out.write for r
TransformRecord(r, lvl, maf_threshold, lo, hi, n) ==
    IF r.alts # <<>> /\ AllDot(r.alts) THEN r
    ELSE IF lvl = "low" THEN r
    ELSE IF /\ MafGate(r.alts, lo, hi, n)
            /\ IsRare(site_maf_from_info(r.info), maf_threshold)
         THEN [r EXCEPT !.alts = <<Dot>>]
         ELSE [r EXCEPT !.alts = NewAlts(r.alts, lo, hi, n)]

-----------------------------------------------------------------------------
(* Target collector: one iteration of the record loop of collect_targets *)

NoTarget == [kind |-> "none", alt_orig |-> <<>>]

\* targets.keys()
TargetSites(tg) == {s \in Sites : tg[s] # NoTarget}

\* 1) is_str: some pattern matches some ALT allele other than '.'
IsStr(r, lo, hi, n) ==
    \E j \in DOMAIN r.alts :
        /\ r.alts[j] # Dot
        /\ \E k \in build_str_patterns(lo, hi, n) : PatternSearch(r.alts[j], k, n) # NoMotif

\* 2) maf_target
MafTarget(r, maf_threshold) ==
    /\ IsRare(verifier_site_maf_from_info(r.info), maf_threshold)
    /\ \E j \in DOMAIN r.alts : r.alts[j] # Dot

\* a classification that prefers MAF
KindMafFirst(is_str, maf_target) == IF maf_target THEN "MAF" ELSE "STR"

\* kind = "STR" if is_str else "MAF"
Kind(is_str, maf_target) == IF is_str THEN "STR" ELSE "MAF"

\* an upsert that keeps the entry a site already has
UpsertKeepFirst(tg, key, entry) ==
    IF tg[key] # NoTarget THEN tg ELSE [tg EXCEPT ![key] = entry]

\* targets[key] = {...}
Upsert(tg, key, entry) == [tg EXCEPT ![key] = entry]

CollectOne(tg, r, maf_threshold, lo, hi, n) ==
    IF r.alts = <<>> \/ AllDot(r.alts) THEN tg
    ELSE LET is_str == IsStr(r, lo, hi, n)
             maf_target == MafTarget(r, maf_threshold)
         IN  IF ~is_str /\ ~maf_target THEN tg
             ELSE Upsert(tg, r.site,
                         [kind |-> Kind(is_str, maf_target), alt_orig |-> r.alts])

-----------------------------------------------------------------------------
(* Verification engine: one iteration of the record loop of verify_pair *)

\* "N" in a
HasN(a) == \E j \in DOMAIN a : a[j] = "N"

\* an STR check that accepts any change of the alleles
StrSuccessAnyChange(alt_mask, alt_orig) == alt_mask # alt_orig

\* kind STR: alt_mask != alt_orig and any("N" in a for a in alt_mask)
StrSuccess(alt_mask, alt_orig) ==
    /\ alt_mask # alt_orig
    /\ \E j \in DOMAIN alt_mask : HasN(alt_mask[j])

\* kind MAF
MafSuccess(r, maf_threshold) ==
    LET maf_masked == verifier_site_maf_from_info(r.info)
    IN  IF maf_masked = None THEN TRUE
        ELSE IF maf_masked < maf_threshold
             THEN r.alts \in {<<>>, <<Dot>>} \/ AllDot(r.alts)
             ELSE TRUE

Success(t, r, maf_threshold) ==
    IF t.kind = "MAF" THEN MafSuccess(r, maf_threshold)
    ELSE StrSuccess(r.alts, t.alt_orig)

\* a success branch that leaves the site in error_sites
ErrorsAfterNoRemove(err, succ, key, success) ==
    IF success THEN err
    ELSE IF key \notin succ THEN err \cup {key} ELSE err

\* error_sites after a record at site key that was judged
ErrorsAfter(err, succ, key, success) ==
    IF success THEN err \ {key}
    ELSE IF key \notin succ THEN err \cup {key} ELSE err

\* if key in var_m_sites: continue
AlreadyDone(succ, key) == key \in succ

\* the loop body for the transformed record r
VerifyRecord(r) ==
    LET key == r.site
        t == targets[key]
    IN  IF t = NoTarget \/ AlreadyDone(var_m_sites, key)
        THEN UNCHANGED <<var_m_sites, error_sites>>
        ELSE LET success == Success(t, r, MafThreshold)
             IN  /\ var_m_sites' = IF success THEN var_m_sites \cup {key} ELSE var_m_sites
                 /\ error_sites' = ErrorsAfter(error_sites, var_m_sites', key, success)

-----------------------------------------------------------------------------
(* The report row of verify_pair *)

Digit == <<"0", "1", "2", "3", "4", "5", "6", "7", "8", "9">>

RECURSIVE Decimal(_)
\* str(p)
Decimal(p) == IF p < 10 THEN <<Digit[p + 1]>> ELSE Decimal(p \div 10) \o <<Digit[(p % 10) + 1]>>

\* f"{c}:{p}"
SiteStr(s) == <<s[1]>> \o <<":">> \o Decimal(s[2])

\* code-point order of the characters a site string is made of
CharRank(c) == CHOOSE k \in 1..11 : (Digit \o <<":">>)[k] = c

RECURSIVE StrLess(_, _)
\* Python's  a < b  on strings
StrLess(a, b) ==
    IF b = <<>> THEN FALSE
    ELSE IF a = <<>> THEN TRUE
    ELSE IF Head(a) # Head(b) THEN CharRank(Head(a)) < CharRank(Head(b))
    ELSE StrLess(Tail(a), Tail(b))

RECURSIVE Sorted(_)
\* sorted(S) for a set of strings
Sorted(S) ==
    IF S = {} THEN <<>>
    ELSE LET lo == CHOOSE x \in S : \A y \in S \ {x} : StrLess(x, y)
         IN  <<lo>> \o Sorted(S \ {lo})

RECURSIVE Join(_)
\* ";".join(list)
Join(l) ==
    IF l = <<>> THEN <<>>
    ELSE IF Len(l) = 1 THEN l[1]
    ELSE l[1] \o <<";">> \o Join(Tail(l))

\* errors_str
ErrorsStr(status, err) ==
    IF status # "ok" /\ err # {}
    THEN Join(Sorted({SiteStr(s) : s \in err}))
    ELSE <<"-">>

\* rate, in hundredths of a percent as "{rate:.2f}" prints it
Rate(masked_total, total_targets) ==
    IF total_targets = 0 THEN 100 * 100
    ELSE (2 * masked_total * 100 * 100 + total_targets) \div (2 * total_targets)

ReportRow(lvl, meta_t, meta_m, tg, succ, err) ==
    LET var_t == Cardinality(TargetSites(tg))
        var_m == Cardinality(succ)
        total_targets == meta_t + var_t
        masked_total == meta_m + var_m
        status == IF masked_total = total_targets THEN "ok" ELSE "fail"
    IN  [ anonymization_level |-> lvl,
          anonymization_rate |-> <<Rate(masked_total, total_targets), masked_total, total_targets>>,
          verification_result |-> status,
          total_targets |-> total_targets,
          metadata_targets |-> meta_t,
          variant_targets |-> var_t,
          metadata_masked |-> meta_m,
          variant_masked |-> var_m,
          unmasked_positions |-> ErrorsStr(status, err) ]

-----------------------------------------------------------------------------
(* The verifier on one file pair (verify_pair), and the anonymizer before it *)

FileInit ==
    /\ alt_seq = <<>>
    /\ motif = NoMotif
    /\ masked = NoMotif
    /\ min_motif = DefaultMinMotif
    /\ max_motif = DefaultMaxMotif
    /\ min_repeat = DefaultMinRepeat
    /\ level \in {"low", "high"}
    /\ origin \in StreamsUpTo(OrigRecords, MaxOrig)
    /\ i = 0
    /\ anony = <<>>
    /\ targets = [s \in Sites |-> NoTarget]
    /\ rec = <<>>
    /\ var_m_sites = {}
    /\ error_sites = {}
    /\ result = <<>>
    /\ info_map = NoInfo
    /\ maf_anon = <<>>
    /\ maf_verif = <<>>

\* the verifier is run on an original file and a transformed file of any content
Init == pc = "verify_pair" /\ FileInit

\* the anonymizer is run on the original file first
RoundTripInit == pc = "anonymize" /\ FileInit

\* anonymize_vcf_file: one record read, transformed and written
AnonymizeRecord ==
    /\ pc = "anonymize"
    /\ i < Len(origin)
    /\ LET r == origin[i + 1]
       IN  IF TransformRaises(r, level, min_motif, max_motif, min_repeat)
           THEN pc' = "raised" /\ UNCHANGED <<i, anony>>
           ELSE /\ anony' = Append(anony, TransformRecord(r, level, MafThreshold,
                                                          min_motif, max_motif, min_repeat))
                /\ i' = i + 1
                /\ pc' = pc
    /\ UNCHANGED <<strVars, paramVars, mafVars, level, origin, targets, rec,
                   var_m_sites, error_sites, result>>

\* anonymize_vcf_file returns; the verifier is started on the pair
AnonymizeClose ==
    /\ pc = "anonymize"
    /\ i = Len(origin)
    /\ pc' = "verify_pair"
    /\ i' = 0
    /\ UNCHANGED <<strVars, paramVars, mafVars, level, origin, anony, targets, rec,
                   var_m_sites, error_sites, result>>

\* verify_pair up to the variant check: a low file skips it
VerifyPairStart ==
    /\ pc = "verify_pair"
    /\ pc' = IF level = "high" THEN "collect" ELSE "report"
    /\ UNCHANGED <<strVars, paramVars, mafVars, level, origin, i, anony, targets, rec,
                   var_m_sites, error_sites, result>>

\* collect_targets: one record of the original file
CollectRecord ==
    /\ pc = "collect"
    /\ i < Len(origin)
    /\ targets' = CollectOne(targets, origin[i + 1], MafThreshold,
                             min_motif, max_motif, min_repeat)
    /\ i' = i + 1
    /\ UNCHANGED <<pc, strVars, paramVars, mafVars, level, origin, anony, rec,
                   var_m_sites, error_sites, result>>

\* collect_targets closes the original file and returns targets
CollectReturn ==
    /\ pc = "collect"
    /\ i = Len(origin)
    /\ pc' = "verify"
    /\ origin' = <<>>
    /\ i' = 0
    /\ UNCHANGED <<strVars, paramVars, mafVars, level, anony, targets, rec,
                   var_m_sites, error_sites, result>>

\* verify loop, one record of a transformed file of arbitrary content
VerifyExternalRecord ==
    /\ pc = "verify"
    /\ i < MaxAnon
    /\ \E r \in AnonRecords :
          /\ rec' = <<r>>
          /\ VerifyRecord(r)
    /\ i' = i + 1
    /\ UNCHANGED <<pc, strVars, paramVars, mafVars, level, origin, anony, targets, result>>

\* the transformed file of arbitrary content ends
VerifyExternalEnd ==
    /\ pc = "verify"
    /\ pc' = "report"
    /\ UNCHANGED <<strVars, paramVars, mafVars, level, origin, i, anony, targets, rec,
                   var_m_sites, error_sites, result>>

\* verify loop, one record of the file the anonymizer wrote
VerifyAnonyRecord ==
    /\ pc = "verify"
    /\ i < Len(anony)
    /\ rec' = <<anony[i + 1]>>
    /\ VerifyRecord(anony[i + 1])
    /\ i' = i + 1
    /\ UNCHANGED <<pc, strVars, paramVars, mafVars, level, origin, anony, targets, result>>

\* the file the anonymizer wrote ends
VerifyAnonyEnd ==
    /\ pc = "verify"
    /\ i = Len(anony)
    /\ pc' = "report"
    /\ UNCHANGED <<strVars, paramVars, mafVars, level, origin, i, anony, targets, rec,
                   var_m_sites, error_sites, result>>

\* verify_pair builds its row; meta_t / meta_m come from the two headers
Report ==
    /\ pc = "report"
    /\ \E meta_t \in 0..2 : \E meta_m \in 0..meta_t :
          result' = <<ReportRow(level, meta_t, meta_m, targets, var_m_sites, error_sites)>>
    /\ pc' = "done"
    /\ UNCHANGED <<strVars, paramVars, mafVars, level, origin, i, anony, targets, rec,
                   var_m_sites, error_sites>>

Next ==
    \/ VerifyPairStart
    \/ CollectRecord
    \/ CollectReturn
    \/ VerifyExternalRecord
    \/ VerifyExternalEnd
    \/ Report

Spec == Init /\ [][Next]_vars

RoundTripNext ==
    \/ AnonymizeRecord
    \/ AnonymizeClose
    \/ VerifyPairStart
    \/ CollectRecord
    \/ CollectReturn
    \/ VerifyAnonyRecord
    \/ VerifyAnonyEnd
    \/ Report

SpecRoundTrip == RoundTripInit /\ [][RoundTripNext]_vars

-----------------------------------------------------------------------------
(* STR engine on one allele sequence: detection, then masking *)

StrInit ==
    /\ pc = "detect"
    /\ \/ /\ alt_seq \in SeqsUpTo(MaxLen)
          /\ min_motif \in {1, 2}
          /\ max_motif \in {2, 3}
          /\ min_repeat \in {2, 3}
       \/ /\ alt_seq \in ExampleSeqs
          /\ min_motif = DefaultMinMotif
          /\ max_motif = DefaultMaxMotif
          /\ min_repeat = DefaultMinRepeat
    /\ motif = NoMotif
    /\ masked = NoMotif
    /\ level = "high"
    /\ origin = <<>>
    /\ i = 0
    /\ anony = <<>>
    /\ targets = [s \in Sites |-> NoTarget]
    /\ rec = <<>>
    /\ var_m_sites = {}
    /\ error_sites = {}
    /\ result = <<>>
    /\ info_map = NoInfo
    /\ maf_anon = <<>>
    /\ maf_verif = <<>>

\* for p in patterns: m = p.search(alt_seq); if m: motif = m.group(1)
DetectStep ==
    /\ pc = "detect"
    /\ motif' = Detect(alt_seq, min_motif, max_motif, min_repeat)
    /\ pc' = IF motif' = NoMotif THEN "nomatch" ELSE "mask"
    /\ UNCHANGED <<alt_seq, masked, paramVars, mafVars, fileVars>>

\* masked = mask_str(alt_seq, motif, min_repeat)
MaskStep ==
    /\ pc = "mask"
    /\ masked' = mask_str(alt_seq, motif, min_repeat)
    /\ pc' = "masked"
    /\ UNCHANGED <<alt_seq, motif, paramVars, mafVars, fileVars>>

StrNext == DetectStep \/ MaskStep

SpecStr == StrInit /\ [][StrNext]_vars

-----------------------------------------------------------------------------
(* Properties of the STR engine (checked under SpecStr) *)

\* start positions of stretches where m stands n or more times contiguously
RunStarts(seq, m, n) == {p \in 1..Len(seq) : RunCount(seq, p, m) >= n}

\* last position of the stretch of m that starts at p
RunEnd(seq, p, m) == p + Len(m) * RunCount(seq, p, m) - 1

FirstRunStart == Min(RunStarts(alt_seq, motif, min_repeat))
FirstRunEnd == RunEnd(alt_seq, FirstRunStart, motif)

NMask(n) == Times(<<"N">>, n)

\* the rewriting rule of C6 at position p of the first matched run
RunRule(p) ==
    masked[p] = IF Len(motif) = 1 THEN "N"
                ELSE IF (p - FirstRunStart) % Len(motif) = 0 THEN alt_seq[p]
                ELSE "N"

\* C6 as stated: when detect finds motif m in a sequence, mask returns a
\* sequence of the same length in which the matched run of m is all 'N' for a
\* one-base motif and, for a longer motif, keeps the first base of each
\* motif-length chunk and has 'N' in the chunk's other positions; 7 x A
\* becomes NNNNNNN and 7 x CAG becomes CNGCNGCNGCNGCNGCNGCNG (min_repeat = 7).
C6_AsStated ==
    pc = "masked" =>
        /\ Len(masked) = Len(alt_seq)
        /\ \A p \in FirstRunStart..FirstRunEnd : RunRule(p)
        /\ (alt_seq = A7 /\ min_repeat = 7) => masked = NMask(7)
        /\ (alt_seq = CAG7 /\ min_repeat = 7) => masked = Times(<<"C", "N", "G">>, 7)

\* C6 amended: the same rule, with the example it implies: 7 x A becomes
\* NNNNNNN and 7 x CAG becomes CNNCNNCNNCNNCNNCNNCNN (min_repeat = 7).
C6_MaskRewritesRun ==
    pc = "masked" =>
        /\ Len(masked) = Len(alt_seq)
        /\ \A p \in FirstRunStart..FirstRunEnd : RunRule(p)
        /\ (alt_seq = A7 /\ min_repeat = 7) => masked = NMask(7)
        /\ (alt_seq = CAG7 /\ min_repeat = 7) => masked = Times(<<"C", "N", "N">>, 7)

C6_Witness ==
    /\ pc = "masked"
    /\ alt_seq = CAG7
    /\ motif = <<"C", "A", "G">>
    /\ masked = Times(<<"C", "N", "N">>, 7)

Repeated(seq, lo, hi, n) ==
    {kp \in (lo..hi) \X (1..Len(seq)) :
        /\ kp[2] + kp[1] - 1 <= Len(seq)
        /\ RunCount(seq, kp[2], SubSeq(seq, kp[2], kp[2] + kp[1] - 1)) >= n}

MotifOf(seq, kp) == SubSeq(seq, kp[2], kp[2] + kp[1] - 1)

\* C8 as stated: whenever the sequence contains a motif of length k in
\* [min_motif, max_motif] repeated >= min_repeat times, detect returns that motif.
C8_DetectReturnsThatMotif ==
    pc # "detect" =>
        \A kp \in Repeated(alt_seq, min_motif, max_motif, min_repeat) :
            motif = MotifOf(alt_seq, kp)

\* C8 amended: for such a sequence detect returns a motif, never none: the
\* leftmost-starting one among the repeated motifs of the smallest length (and
\* none exactly when the sequence holds no repeated motif).
C8_DetectReturnsShortestLeftmost ==
    pc # "detect" =>
        LET Q == Repeated(alt_seq, min_motif, max_motif, min_repeat)
        IN  /\ (Q = {}) <=> (motif = NoMotif)
            /\ Q # {} =>
                  \E kp \in Q :
                      /\ motif = MotifOf(alt_seq, kp)
                      /\ \A other \in Q :
                            /\ kp[1] <= other[1]
                            /\ other[1] = kp[1] => kp[2] <= other[2]

\* detect has answered with one motif while a longer motif is repeated too
C8_Witness ==
    /\ pc # "detect"
    /\ motif # NoMotif
    /\ \E kp \in Repeated(alt_seq, min_motif, max_motif, min_repeat) :
          kp[1] > Len(motif) /\ MotifOf(alt_seq, kp) # motif

-----------------------------------------------------------------------------
(* Properties of the verification engine (checked under Spec) *)

\* the estimate recomputed from a transformed record's annotations
Recomputed(r) == verifier_site_maf_from_info(r.info)

\* the judgement C1 describes, for target entry t and transformed record r
Judged(t, r) ==
    IF t.kind = "STR"
    THEN /\ r.alts # t.alt_orig
         /\ \E j \in DOMAIN r.alts : \E q \in DOMAIN r.alts[j] : r.alts[j][q] = "N"
    ELSE \/ Recomputed(r) = None
         \/ Recomputed(r) >= MafThreshold
         \/ /\ Recomputed(r) < MafThreshold
            /\ \A j \in DOMAIN r.alts : r.alts[j] = Dot

\* C1: a transformed record at a target site that is not yet in success_sites
\* is judged successful exactly when: kind STR, the alternates differ from the
\* original tuple and some allele contains 'N'; kind MAF, the recomputed
\* estimate is none, or >= maf_threshold, or < maf_threshold with the
\* alternates empty or all '.'.
C1_VerifyJudgement ==
    [][ ( /\ pc = "verify" /\ pc' = "verify" /\ i' = i + 1
          /\ targets[rec'[1].site] # NoTarget
          /\ rec'[1].site \notin var_m_sites )
        => ( /\ (rec'[1].site \in var_m_sites') <=> Judged(targets[rec'[1].site], rec'[1])
             /\ (rec'[1].site \in error_sites') <=> ~Judged(targets[rec'[1].site], rec'[1]) )
      ]_vars

\* an STR target whose alleles were changed without any 'N' has been judged a failure
C1_Witness ==
    /\ pc = "verify"
    /\ rec # <<>>
    /\ targets[rec[1].site].kind = "STR"
    /\ rec[1].alts # targets[rec[1].site].alt_orig
    /\ \A j \in DOMAIN rec[1].alts : ~HasN(rec[1].alts[j])
    /\ rec[1].site \in error_sites
    /\ rec[1].site \notin var_m_sites

\* C2: success_sites and error_sites are disjoint in every state of the scan,
\* and a site once in success_sites stays there and is never in error_sites
\* again, even when a later record at the site fails its check.
C2_SuccessPermanent ==
    /\ var_m_sites \cap error_sites = {}
    /\ [][ /\ var_m_sites' \cap error_sites' = {}
           /\ \A s \in var_m_sites : s \in var_m_sites' /\ s \notin error_sites'
        ]_vars

\* a record that fails its check has been read at a site already in success_sites
C2_Witness ==
    /\ pc = "verify"
    /\ rec # <<>>
    /\ rec[1].site \in var_m_sites
    /\ rec[1].site \notin error_sites
    /\ ~Judged(targets[rec[1].site], rec[1])

\* a record qualifies: a non-'.' alternate, and STR-matching or an estimate
\* strictly below maf_threshold
StrMatching(r) ==
    \E j \in DOMAIN r.alts :
        Repeated(r.alts[j], min_motif, max_motif, min_repeat) # {}

BelowThreshold(r) ==
    LET e == verifier_site_maf_from_info(r.info) IN e # None /\ e < MafThreshold

Qualifies(r) ==
    /\ \E j \in DOMAIN r.alts : r.alts[j] # Dot
    /\ StrMatching(r) \/ BelowThreshold(r)

\* indexes of the qualifying records at site s among the first n records
QualifyingAt(s, n) == {j \in 1..n : origin[j].site = s /\ Qualifies(origin[j])}

Last(S) == CHOOSE x \in S : \A y \in S : y <= x

\* the entry C3 describes for site s after n records
EntryOfLast(s, n) ==
    IF QualifyingAt(s, n) = {} THEN NoTarget
    ELSE LET r == origin[Last(QualifyingAt(s, n))]
         IN  [kind |-> IF StrMatching(r) THEN "STR" ELSE "MAF", alt_orig |-> r.alts]

\* C3: after collect has scanned the stream (and after every prefix of it) the
\* target map holds for each site exactly the entry of the last qualifying
\* record at the site, and no entry for a site without a qualifying record.
C3_LastQualifyingWins ==
    pc = "collect" => \A s \in Sites : targets[s] = EntryOfLast(s, i)

\* the scan is complete and a site's entry comes from the second of two
\* qualifying records with different alternates and kinds
C3_Witness ==
    /\ pc = "collect"
    /\ i = Len(origin)
    /\ \E s \in Sites :
          /\ Cardinality(QualifyingAt(s, i)) >= 2
          /\ \E j \in QualifyingAt(s, i) :
                /\ j < Last(QualifyingAt(s, i))
                /\ origin[j].alts # origin[Last(QualifyingAt(s, i))].alts
                /\ StrMatching(origin[j])
          /\ targets[s].kind = "MAF"

\* C4 as stated: a site that qualifies as STR (by some record) and as MAF (by
\* some record) is recorded with kind STR, also with several records at the site.
C4_SiteStrPriority ==
    (pc = "collect" /\ i = Len(origin)) =>
        \A s \in Sites :
            ( /\ \E j \in QualifyingAt(s, i) : StrMatching(origin[j])
              /\ \E j \in QualifyingAt(s, i) : BelowThreshold(origin[j]) )
            => targets[s].kind = "STR"

\* C4 amended: STR takes priority within a record: when the last qualifying
\* record at a site qualifies as both STR and MAF, the site is recorded STR.
C4_RecordStrPriority ==
    pc = "collect" =>
        \A s \in Sites :
            QualifyingAt(s, i) # {} =>
                LET r == origin[Last(QualifyingAt(s, i))]
                IN  (StrMatching(r) /\ BelowThreshold(r)) => targets[s].kind = "STR"

\* the scan is complete; the last qualifying record of a site is both STR and
\* rare, and an earlier record at the site qualified as MAF only
C4_Witness ==
    /\ pc = "collect"
    /\ i = Len(origin)
    /\ \E s \in Sites :
          /\ QualifyingAt(s, i) # {}
          /\ StrMatching(origin[Last(QualifyingAt(s, i))])
          /\ BelowThreshold(origin[Last(QualifyingAt(s, i))])
          /\ \E j \in QualifyingAt(s, i) : ~StrMatching(origin[j])
          /\ targets[s].kind = "STR"

RECURSIVE Split(_)
\* s.split(";")
Split(s) ==
    IF \A j \in DOMAIN s : s[j] # ";" THEN <<s>>
    ELSE LET cut == Min({j \in DOMAIN s : s[j] = ";"})
         IN  <<SubSeq(s, 1, cut - 1)>> \o Split(SubSeq(s, cut + 1, Len(s)))

\* the coordinates the report's unmasked-positions list names
Named(row) == Range(Split(row.unmasked_positions))

\* C9: when verify of a high-level pair finishes, the unmasked-positions list
\* names every target site not in success_sites (success_sites and error_sites
\* together cover the targets) and is the placeholder only when no target site
\* is unmasked, also when no record appears at some target site.
C9_ReportNamesUnmasked ==
    (pc = "done" /\ level = "high") =>
        LET unmaskedTargets == TargetSites(targets) \ var_m_sites
        IN  /\ \A s \in unmaskedTargets : SiteStr(s) \in Named(result[1])
            /\ var_m_sites \cup error_sites = TargetSites(targets)
            /\ (result[1].unmasked_positions = <<"-">>) => unmaskedTargets = {}

-----------------------------------------------------------------------------
(* Properties of the anonymization engine and of the round trip
   (checked under SpecRoundTrip) *)

\* detect fires on allele a
Detected(a) == Repeated(a, min_motif, max_motif, min_repeat) # {}

\* C5: at level high a record in which any alternate matches an STR pattern is
\* written with its STR-masked alternates (the matching alleles carry 'N', the
\* others are unchanged) and never as the single sentinel '.', whatever its
\* MAF estimate is.
C5_StrExcludesSuppression ==
    (pc = "anonymize" /\ level = "high") =>
        \A j \in 1..Len(anony) :
            (\E q \in DOMAIN origin[j].alts : Detected(origin[j].alts[q])) =>
                /\ anony[j].alts # <<Dot>>
                /\ Len(anony[j].alts) = Len(origin[j].alts)
                /\ \A q \in DOMAIN origin[j].alts :
                      IF Detected(origin[j].alts[q])
                      THEN /\ HasN(anony[j].alts[q])
                           /\ Len(anony[j].alts[q]) = Len(origin[j].alts[q])
                      ELSE anony[j].alts[q] = origin[j].alts[q]

\* a rare record (estimate below the threshold) with an STR allele has been
\* written masked, not suppressed
C5_Witness ==
    /\ pc = "anonymize"
    /\ level = "high"
    /\ \E j \in 1..Len(anony) :
          /\ \E q \in DOMAIN origin[j].alts : Detected(origin[j].alts[q])
          /\ IsRare(site_maf_from_info(origin[j].info), MafThreshold)
          /\ \E q \in DOMAIN anony[j].alts : HasN(anony[j].alts[q])

\* C10: after the high-level anonymizer's output is verified against its
\* original, every target site is in success_sites and error_sites is empty,
\* so variant_masked = variant_targets.
C10_RoundTripAllMasked ==
    (pc = "done" /\ level = "high") =>
        /\ var_m_sites = TargetSites(targets)
        /\ error_sites = {}
        /\ result[1].variant_masked = result[1].variant_targets

-----------------------------------------------------------------------------
(* The two MAF estimators on one INFO map *)

RECURSIVE TuplesUpTo(_, _)
\* the tuples of at most n elements of E
TuplesUpTo(E, n) ==
    IF n = 0 THEN {<<>>}
    ELSE LET shorter == TuplesUpTo(E, n - 1)
         IN  shorter \cup {s \o <<e>> : s \in {x \in shorter : Len(x) = n - 1}, e \in E}

\* what pysam can hand out for an INFO key whose elements are in E: the key
\* absent, a scalar (Number=1), or a tuple
ValuesOver(E) ==
    {Absent} \cup {Scalar(e) : e \in E} \cup {Tuple(s) : s \in TuplesUpTo(E, MaxVals)}

\* elements of MAF / AF: missing, unparsable, 0.005, 0.3
FreqElems == {None, Bad, 5, 300}

\* elements of AC: missing, unparsable, a count of 2
CountElems == {None, Bad, 2}

\* AN: absent, missing, unparsable, 0, 100, or a one-element tuple
AnValues == {Absent, Scalar(None), Scalar(Bad), Scalar(0), Scalar(100), Tuple(<<100>>)}

MafInit ==
    /\ pc = "maf_anonymizer"
    /\ info_map \in {Info(m, af, ac, an) : m \in ValuesOver(FreqElems), af \in ValuesOver(FreqElems),
                                       ac \in ValuesOver(CountElems), an \in AnValues}
    /\ maf_anon = <<>>
    /\ maf_verif = <<>>
    /\ alt_seq = <<>>
    /\ motif = NoMotif
    /\ masked = NoMotif
    /\ min_motif = DefaultMinMotif
    /\ max_motif = DefaultMaxMotif
    /\ min_repeat = DefaultMinRepeat
    /\ level = "high"
    /\ origin = <<>>
    /\ i = 0
    /\ anony = <<>>
    /\ targets = [s \in Sites |-> NoTarget]
    /\ rec = <<>>
    /\ var_m_sites = {}
    /\ error_sites = {}
    /\ result = <<>>

\* anonymizer: maf = site_maf_from_info(rec.info)
AnonymizerEstimate ==
    /\ pc = "maf_anonymizer"
    /\ maf_anon' = <<site_maf_from_info(info_map)>>
    /\ pc' = "maf_verifier"
    /\ UNCHANGED <<info_map, maf_verif, strVars, paramVars, fileVars>>

\* verifier: maf = site_maf_from_info(rec.info)
VerifierEstimate ==
    /\ pc = "maf_verifier"
    /\ maf_verif' = <<verifier_site_maf_from_info(info_map)>>
    /\ pc' = "maf_done"
    /\ UNCHANGED <<info_map, maf_anon, strVars, paramVars, fileVars>>

MafNext == AnonymizerEstimate \/ VerifierEstimate

SpecMaf == MafInit /\ [][MafNext]_vars

-----------------------------------------------------------------------------
(* Property of the two estimators (checked under SpecMaf) *)

\* C11: for every annotation map the anonymizer's and the verifier's
\* site_maf_from_info give the same outcome (the same frequency, or both
\* none), so both tools classify the record as MAF-rare identically.
C11_EstimatorsAgree ==
    pc = "maf_done" =>
        /\ maf_anon[1] = maf_verif[1]
        /\ IsRare(maf_anon[1], MafThreshold) <=> IsRare(maf_verif[1], MafThreshold)

====
